---- MODULE Spec2Model ----
(***************************************************************************)
(* A model of calibre2jellyfin.py: the export of a Calibre library into a   *)
(* Jellyfin library (folders, symlinks and a copy of the metadata file).    *)
(*                                                                         *)
(* Text that the program takes apart (folder names, series names, series   *)
(* indexes, subjects, titles) is a sequence of one-character strings, so    *)
(* that the regular expressions, the padding and strip()/lower() are        *)
(* computed, character by character, as the code computes them.  File names *)
(* the program only copies (book.epub, cover.jpg, metadata.opf) are atomic. *)
(***************************************************************************)
EXTENDS Integers, Sequences, FiniteSets, TLC

(***************************************************************************)
(* Characters                                                              *)
(***************************************************************************)

\* The punctuation of the first re.sub of sanitize_filename.
IllegalPunct == {"/", "\\", "?", "%", "*", ":", "|", "\"", "<", ">"}

\* The control characters \x00-\x1F and \x7F, as far as a TLA+ string
\* can spell them: tab, line feed, form feed, carriage return.
ControlChars == {"\t", "\n", "\f", "\r"}

IllegalChars == IllegalPunct \cup ControlChars

\* str.strip() without argument strips whitespace.
WhiteSpace == {" ", "\t", "\n", "\f", "\r"}

LowerLetters ==
    << "a","b","c","d","e","f","g","h","i","j","k","l","m",
       "n","o","p","q","r","s","t","u","v","w","x","y","z" >>

UpperLetters ==
    << "A","B","C","D","E","F","G","H","I","J","K","L","M",
       "N","O","P","Q","R","S","T","U","V","W","X","Y","Z" >>

Range(f) == { f[i] : i \in DOMAIN f }

\* One character of str.lower() / of a re.IGNORECASE comparison.
LowerChar(c) ==
    IF c \in Range(UpperLetters)
    THEN LowerLetters[CHOOSE i \in DOMAIN UpperLetters : UpperLetters[i] = c]
    ELSE c

\* str.lower()
Lower(s) == [ i \in DOMAIN s |-> LowerChar(s[i]) ]

\* str.strip()
RECURSIVE LStrip(_)
LStrip(s) ==
    IF s # << >> /\ Head(s) \in WhiteSpace THEN LStrip(Tail(s)) ELSE s

RECURSIVE RStrip(_)
RStrip(s) ==
    IF s # << >> /\ s[Len(s)] \in WhiteSpace
    THEN RStrip(SubSeq(s, 1, Len(s) - 1))
    ELSE s

Strip(s) == RStrip(LStrip(s))

\* s[n:] of Python, n counted from 0
Drop(s, n) == SubSeq(s, n + 1, Len(s))

\* ",".join(line)
RECURSIVE Join(_)
Join(line) ==
    IF line = << >> THEN << >>
    ELSE IF Len(line) = 1 THEN line[1]
    ELSE line[1] \o << "," >> \o Join(Tail(line))

(***************************************************************************)
(* sanitize_filename                                                       *)
(***************************************************************************)

\* The device names of the second re.sub, in the order of the alternation.
ReservedNames ==
    { << "C","O","N" >>,
      << "C","O","N","I","N","$" >>,
      << "C","O","N","O","U","T","$" >>,
      << "P","R","N" >>,
      << "A","U","X" >>,
      << "C","L","O","C","K","$" >>,
      << "N","U","L" >> }
    \cup { << "C","O","M", d >> : d \in {"0","1","2","3","4","5","6","7","8","9"} }
    \cup { << "L","P","T", d >> : d \in {"0","1","2","3","4","5","6","7","8","9"} }
    \cup { << "L","S","T" >>,
           << "K","E","Y","B","D","$" >>,
           << "S","C","R","E","E","N","$" >>,
           << "$","I","D","L","E","$" >>,
           << "C","O","N","F","I","G","$" >> }

\* Faulty variant: the control characters are let through.
ReplaceIllegal_PunctOnly(s) ==
    [ i \in DOMAIN s |-> IF s[i] \in IllegalPunct THEN "-" ELSE s[i] ]

\* First re.sub: every illegal character becomes "-".
ReplaceIllegal(s) ==
    [ i \in DOMAIN s |-> IF s[i] \in IllegalChars THEN "-" ELSE s[i] ]

\* The names as a comparison without case sees them, and their lengths.
ReservedLower == { Lower(n) : n \in ReservedNames }
ReservedLengths == { Len(n) : n \in ReservedNames }

\* s has a reserved name of length l at offset k (0 or 1), compared without
\* case, followed by ".", " " or the end of the string.
NameAt(s, l, k) ==
    /\ Len(s) >= k + l
    /\ Lower(SubSeq(s, k + 1, k + l)) \in ReservedLower
    /\ \/ Len(s) = k + l
       \/ s[k + l + 1] \in {".", " "}

\* Length of the span "^ ?(name)([. ]|$)" matches in s, 0 when it does not match.
ReservedSpan(s) ==
    LET k == IF s # << >> /\ s[1] = " " THEN 1 ELSE 0
        hits == { l \in ReservedLengths : NameAt(s, l, k) }
    IN  IF hits = {} THEN 0
        ELSE LET e == k + (CHOOSE l \in hits : TRUE)
             IN  IF Len(s) = e THEN e ELSE e + 1

\* Second re.sub: the matched span becomes one "-".
ReplaceReserved(s) ==
    LET span == ReservedSpan(s)
    IN  IF span = 0 THEN s ELSE << "-" >> \o Drop(s, span)

\* Faulty variant: only the first match is replaced.
ReplaceEnds_Once(s) ==
    [ i \in DOMAIN s |->
        IF \/ i = 1 /\ s[i] = " "
           \/ i = Len(s) /\ s[i] \in {".", " "} /\ s[1] # " "
        THEN "-" ELSE s[i] ]

\* Third re.sub, "^ |[. ]$": a leading space and a trailing "." or space.
ReplaceEnds(s) ==
    [ i \in DOMAIN s |->
        IF \/ i = 1 /\ s[i] = " "
           \/ i = Len(s) /\ s[i] \in {".", " "}
        THEN "-" ELSE s[i] ]

sanitize_filename(sani) == ReplaceEnds(ReplaceReserved(ReplaceIllegal(sani)))

(***************************************************************************)
(* BookMetadata.format_series_index                                        *)
(***************************************************************************)

\* f'{s:>0Ns}': s padded on the left with "0" to width n.
RECURSIVE ZeroPad(_, _)
ZeroPad(s, n) == IF Len(s) >= n THEN s ELSE ZeroPad(<< "0" >> \o s, n)

\* str.index('.'), counted from 1; 0 when there is none.
DotIndex(s) ==
    IF \E i \in DOMAIN s : s[i] = "."
    THEN CHOOSE i \in DOMAIN s : s[i] = "." /\ \A j \in 1..(i - 1) : s[j] # "."
    ELSE 0

format_series_index(series_index) ==
    IF series_index = << >> THEN << "9", "9", "9" >>
    ELSE IF DotIndex(series_index) # 0
    THEN LET i == DotIndex(series_index)
         IN  ZeroPad(SubSeq(series_index, 1, i - 1), 3)
               \o << "." >> \o ZeroPad(Drop(series_index, i), 2)
    ELSE ZeroPad(series_index, 3)

(***************************************************************************)
(* The texts of the model                                                  *)
(***************************************************************************)

Foo       == << "F","o","o" >>
Con       == << "c","o","n" >>
Idx3      == << "3" >>
Idx3_2    == << "3",".","2" >>
TitleText == << "T" >>
SortText  == << "t" >>
DescText  == << "d" >>
Ann       == << "A","n","n" >>
Fantasy   == << "f","a","n","t","a","s","y" >>
Adventure == << "a","d","v","e","n","t","u","r","e" >>
SciFi     == << "x" >>

\* Author folders and book folders of the Calibre store.
AuthorA == << "A" >>
AuthorB == << "B" >>
FolderBk  == << "b","k" >>
FolderDot == << "b",":","k","." >>

(***************************************************************************)
(* Metadata documents (.opf)                                               *)
(*                                                                         *)
(* An element list is what getElementsByTagName returns; an element is the *)
(* list of its text children, << >> for an element without content, whose  *)
(* firstChild is None.  metatags are the <meta name= content=> elements in  *)
(* document order.                                                         *)
(***************************************************************************)

Meta(name, content) == [ name |-> name, content |-> content ]

XmlDoc(title, creator, description, subject, metatags) ==
    [ kind |-> "xml", title |-> title, creator |-> creator,
      description |-> description, subject |-> subject, metatags |-> metatags ]

\* A file that cannot be opened, and one that is not XML.
Unreadable == [ kind |-> "unreadable" ]
Malformed  == [ kind |-> "malformed" ]
\* What a failed writexml leaves behind after open(..., 'w') truncated the file.
Truncated  == [ kind |-> "truncated" ]

SeriesTags ==
    << Meta("calibre:series", Foo), Meta("calibre:series_index", Idx3),
       Meta("calibre:title_sort", SortText) >>

DocFull ==
    XmlDoc(<< << TitleText >> >>, << << Ann >> >>, << << DescText >> >>,
           << << << " " >> \o << "F" >> \o Tail(Fantasy) >>, << Adventure >> >>,
           SeriesTags)

DocNoSeries ==
    XmlDoc(<< << TitleText >> >>, << << Ann >> >>, << << DescText >> >>,
           << << SciFi >> >>, << Meta("calibre:title_sort", SortText) >>)

\* A series without a series index.
DocSeriesNoIndex ==
    XmlDoc(<< << TitleText >> >>, << << Ann >> >>, << >>,
           << << Fantasy >> >>, << Meta("calibre:series", Con) >>)

\* A fractional index, and the index before the series.
DocFraction ==
    XmlDoc(<< << TitleText >> >>, << << Ann >> >>, << << DescText >> >>,
           << << Fantasy >>, << Adventure >> >>,
           << Meta("calibre:series_index", Idx3_2), Meta("calibre:series", Foo) >>)

\* No title, no creator, nothing else.
DocBare == XmlDoc(<< >>, << >>, << >>, << >>, << >>)

\* <dc:creator/>, <dc:subject/>, <dc:title/> and <dc:description/> without content.
DocEmptyCreator ==
    XmlDoc(<< << TitleText >> >>, << << >> >>, << >>, << << Fantasy >> >>, << >>)

DocEmptySubject ==
    XmlDoc(<< << TitleText >> >>, << << Ann >> >>, << >>, << << >> >>, << >>)

DocEmptyTitle ==
    XmlDoc(<< << >> >>, << << Ann >> >>, << << DescText >> >>,
           << << Fantasy >> >>, SeriesTags)

DocEmptyDescription ==
    XmlDoc(<< << TitleText >> >>, << << Ann >> >>, << << >> >>,
           << << Fantasy >> >>, SeriesTags)

(***************************************************************************)
(* The Calibre store: book folders and their files                         *)
(***************************************************************************)

CoverName == "cover.jpg"
OpfName   == "metadata.opf"

\* The files a book folder can hold, and the extension glob() sees.
Extension ==
    [ n \in {"book.epub", "book.pdf", "notes.txt", CoverName, OpfName} |->
        CASE n = "book.epub" -> "epub"
          [] n = "book.pdf"  -> "pdf"
          [] n = "notes.txt" -> "txt"
          [] n = CoverName   -> "jpg"
          [] n = OpfName     -> "opf" ]

\* A book folder: its author folder, its name, its files with their
\* modification times, and the content of its metadata file.
BookFolder(author, folder, names, opf) ==
    [ author |-> author, folder |-> folder,
      mtime |-> [ n \in names |-> 0 ], opf |-> opf ]

\* No file stands for "None" where the code holds an optional path.
None == ""

(***************************************************************************)
(* BookMetadata                                                            *)
(*                                                                         *)
(* doc is << >> (None) or << the document >>; titleel, sortel and descel    *)
(* are << >> (None) or << the element >>, sortel holding the content        *)
(* attribute.  raised tells that the constructor ended with an uncaught     *)
(* AttributeError (firstChild is None).                                     *)
(***************************************************************************)

EmptyMetadata ==
    [ doc |-> << >>, series |-> << >>, series_index |-> << >>,
      formatted_series_index |-> << >>, author |-> << >>, subjects |-> << >>,
      titleel |-> << >>, sortel |-> << >>, descel |-> << >>, raised |-> FALSE ]

\* The loop over the meta elements, in document order.
RECURSIVE ScanMetatags(_, _)
ScanMetatags(metatags, md) ==
    IF metatags = << >> THEN md
    ELSE LET tag == Head(metatags)
             nxt == CASE tag.name = "calibre:series" ->
                            [ md EXCEPT !.series = tag.content ]
                      [] tag.name = "calibre:series_index" ->
                            [ md EXCEPT !.series_index = tag.content,
                                        !.formatted_series_index =
                                            format_series_index(tag.content) ]
                      [] tag.name = "calibre:title_sort" ->
                            [ md EXCEPT !.sortel = << tag.content >> ]
                      [] OTHER -> md
         IN  ScanMetatags(Tail(metatags), nxt)

\* el.firstChild.data raises when the element has no child.
HasNoChild(el) == el = << >>

\* BookMetadata.__init__: opf is None (no metadata file) or the file's content.
BookMetadata(opf) ==
    IF opf = << >> THEN EmptyMetadata
    ELSE LET file == opf[1] IN
         IF file.kind # "xml" THEN EmptyMetadata
         ELSE LET md0 == [ EmptyMetadata EXCEPT !.doc = << file >> ]
                  md1 == IF file.title # << >>
                         THEN [ md0 EXCEPT !.titleel = << file.title[1] >> ]
                         ELSE md0
              IN  IF file.creator # << >> /\ HasNoChild(file.creator[1])
                  THEN [ md1 EXCEPT !.raised = TRUE ]
                  ELSE
                  LET md2 == IF file.creator # << >>
                             THEN [ md1 EXCEPT !.author = file.creator[1][1] ]
                             ELSE md1
                      md3 == IF file.description # << >>
                             THEN [ md2 EXCEPT !.descel = << file.description[1] >> ]
                             ELSE md2
                  IN  IF \E i \in DOMAIN file.subject : HasNoChild(file.subject[i])
                      THEN [ md3 EXCEPT !.raised = TRUE ]
                      ELSE
                      LET md4 == [ md3 EXCEPT !.subjects =
                                     [ i \in DOMAIN file.subject |->
                                         Strip(Lower(file.subject[i][1])) ] ]
                      IN  ScanMetatags(file.metatags, md4)

(***************************************************************************)
(* Book.check_subject_line, Book.check_subjects                            *)
(***************************************************************************)

\* Faulty variant: one item among the subjects is enough.
check_subject_line_Any(line, subjects) ==
    \E i \in DOMAIN line : Strip(line[i]) \in Range(subjects)

\* for item in line: if item.strip() not in subjects: return False
RECURSIVE check_subject_line(_, _)
check_subject_line(line, subjects) ==
    IF line = << >> THEN TRUE
    ELSE IF Strip(Head(line)) \notin Range(subjects) THEN FALSE
    ELSE check_subject_line(Tail(line), subjects)

\* The first line that matches, 0 when none does.
RECURSIVE FirstMatch(_, _, _)
FirstMatch(lines, subjects, i) ==
    IF i > Len(lines) THEN 0
    ELSE IF check_subject_line(lines[i], subjects) THEN i
    ELSE FirstMatch(lines, subjects, i + 1)

\* The value check_subjects returns and the matched_subject it leaves.
check_subjects(lines, subjects) ==
    LET i == FirstMatch(lines, subjects, 1)
    IN  [ result |-> i # 0,
          matched_subject |-> IF i # 0 THEN Join(lines[i]) ELSE << >> ]

(***************************************************************************)
(* Construct.__init__: a [Construct] section of the configuration file     *)
(*                                                                         *)
(* A section gives the multi-line values as the lists the code splits them  *)
(* into (an empty value is the list of one empty string), tells which keys  *)
(* it lacks, and what the file system says of the two stores.               *)
(***************************************************************************)

Section(selectionMode, foldermode, authorFolders, subjects, bookfiletypes, mangleMetaTitle, mangleMetaTitleSort) ==
    [ selectionMode |-> selectionMode, foldermode |-> foldermode,
      authorFolders |-> authorFolders, subjects |-> subjects,
      bookfiletypes |-> bookfiletypes,
      mangleMetaTitle |-> mangleMetaTitle,
      mangleMetaTitleSort |-> mangleMetaTitleSort,
      lacks |-> {}, calibreIsDir |-> TRUE, jellyfinIsDir |-> TRUE,
      samefile |-> FALSE ]

\* The keys read with section[...] that the DEFAULT section does not supply.
KeysRead(section) ==
    {"calibreStore", "jellyfinStore", "foldermode", "bookfiletypes"}
      \cup (IF section.selectionMode = "author" THEN {"authorFolders"} ELSE {})

\* Faulty variant: only the presence of the keys is checked.
ConstructInit_KeysOnly(section) ==
    IF KeysRead(section) \cap section.lacks # {} THEN "KeyError" ELSE "ok"

\* The outcome of Construct.__init__: "KeyError", "ValueError" or "ok".
ConstructInit(section) ==
    IF KeysRead(section) \cap section.lacks # {} THEN "KeyError"
    ELSE IF ~section.calibreIsDir THEN "ValueError"
    ELSE IF ~section.jellyfinIsDir THEN "ValueError"
    ELSE IF section.samefile THEN "ValueError"
    ELSE IF section.foldermode \notin {"book", "series,book", "author,series,book"}
         THEN "ValueError"
    ELSE IF section.selectionMode \notin {"author", "subject", "all"}
         THEN "ValueError"
    ELSE IF section.selectionMode = "author" /\ section.authorFolders[1] = << >>
         THEN "ValueError"
    ELSE IF section.selectionMode = "subject" /\ section.subjects[1][1] = << >>
         THEN "ValueError"
    ELSE IF section.bookfiletypes[1] = "" THEN "ValueError"
    ELSE "ok"

\* The attributes of a Construct.
Construct(section, name) ==
    [ section_name |-> name,
      selection_mode |-> section.selectionMode,
      foldermode |-> section.foldermode,
      mangle_meta_title |-> section.mangleMetaTitle,
      mangle_meta_title_sort |-> section.mangleMetaTitleSort,
      book_file_types |-> section.bookfiletypes,
      author_folders |-> IF section.selectionMode = "author"
                         THEN section.authorFolders ELSE << >>,
      subjects |-> IF section.selectionMode = "subject"
                   THEN [ i \in DOMAIN section.subjects |->
                            [ j \in DOMAIN section.subjects[i] |->
                                Lower(section.subjects[i][j]) ] ]
                   ELSE << << << >> >> >> ]

(***************************************************************************)
(* Book.__init__                                                           *)
(*                                                                         *)
(* A destination folder is the list of its path components below the       *)
(* Jellyfin store; a destination file is a folder and a file name.          *)
(***************************************************************************)

jellyfin_store == << >>

File(dir, name) == [ dir |-> dir, name |-> name ]

\* glob('*.' + ext) in a book folder: the model keeps one file per extension.
Glob(bf, ext) == { n \in DOMAIN bf.mtime : Extension[n] = ext }

First(files) == IF files = {} THEN None ELSE CHOOSE n \in files : TRUE

\* Faulty variant: any file of the folder is taken for the book file.
find_book_AnyFile(bf, book_file_types) == First(DOMAIN bf.mtime)

\* find_book: the first configured extension that has a file.
RECURSIVE find_book(_, _)
find_book(bf, book_file_types) ==
    IF book_file_types = << >> THEN None
    ELSE IF Glob(bf, Head(book_file_types)) # {}
         THEN First(Glob(bf, Head(book_file_types)))
         ELSE find_book(bf, Tail(book_file_types))

find_cover(bf) == First({ n \in DOMAIN bf.mtime : n = CoverName })

find_metadata(bf) == First(Glob(bf, "opf"))

SeriesModes == {"author,series,book", "series,book"}

\* The destination folder name and path Book.__init__ computes.
BookFolderName(foldermode, md, folder) ==
    IF md.series # << >> /\ foldermode \in SeriesModes
    THEN sanitize_filename(md.formatted_series_index \o << " ", "-", " " >> \o folder)
    ELSE folder

\* Faulty variant: every book folder lies right below the store.
BookFolderDstPath_Flat(foldermode, md, author, folder) ==
    jellyfin_store \o << BookFolderName(foldermode, md, folder) >>

BookFolderDstPath(foldermode, md, author, folder) ==
    LET author_folder_dst_path == jellyfin_store \o << author >>
        book_folder == BookFolderName(foldermode, md, folder)
        series_folder == sanitize_filename(md.series \o << " ","S","e","r","i","e","s" >>)
    IN  IF md.series # << >> /\ foldermode \in SeriesModes
        THEN IF foldermode = "author,series,book"
             THEN author_folder_dst_path \o << series_folder, book_folder >>
             ELSE jellyfin_store \o << series_folder, book_folder >>
        ELSE IF foldermode \in {"book", "series,book"}
             THEN jellyfin_store \o << book_folder >>
             ELSE author_folder_dst_path \o << book_folder >>

\* The attributes of a Book as the constructor first sets them.
EmptyBook(slot, folder) ==
    [ slot |-> slot, book_folder |-> folder,
      book_folder_dst_path |-> << >>,
      book_file_src_path |-> None, cover_file_src_path |-> None,
      metadata_file_src_path |-> None, metadata |-> EmptyMetadata,
      matched_subject |-> << >>, raised |-> FALSE ]

\* The Book object for book folder bf (slot tells which folder of the store
\* it is).  Without a book file the constructor returns early; when
\* BookMetadata raises, so does the constructor.
BookInit(cons, slot, bf) ==
    LET book_file == find_book(bf, cons.book_file_types)
        opf_file  == find_metadata(bf)
        md == BookMetadata(IF opf_file = None THEN << >> ELSE << bf.opf >>)
        early == EmptyBook(slot, bf.folder)
    IN  IF book_file = None THEN early
        ELSE IF md.raised
        THEN [ early EXCEPT !.book_file_src_path = book_file,
                            !.cover_file_src_path = find_cover(bf),
                            !.metadata_file_src_path = opf_file,
                            !.raised = TRUE ]
        ELSE [ early EXCEPT
                 !.book_file_src_path = book_file,
                 !.cover_file_src_path = find_cover(bf),
                 !.metadata_file_src_path = opf_file,
                 !.metadata = md,
                 !.book_folder = BookFolderName(cons.foldermode, md, bf.folder),
                 !.book_folder_dst_path =
                     BookFolderDstPath(cons.foldermode, md, bf.author, bf.folder) ]

book_file_dst_path(b) == File(b.book_folder_dst_path, b.book_file_src_path)
cover_file_dst_path(b) == File(b.book_folder_dst_path, b.cover_file_src_path)
metadata_file_dst_path(b) == File(b.book_folder_dst_path, b.metadata_file_src_path)

\* The document do_metadata hands to write(): mangled when the book has a
\* series and the folder mode nests by series.
Prefix(md) == md.formatted_series_index \o << " ", "-", " " >>

DescriptionHeader(md) ==
    << "<","H","4",">","B","o","o","k"," " >> \o md.series_index
      \o << " ","o","f"," ","<","e","m",">" >> \o md.series
      \o << "<","/","e","m",">",","," ","b","y"," " >> \o md.author
      \o << "<","/","H","4",">" >>

MangleTitle(cons, md) ==
    md.series # << >> /\ cons.foldermode \in SeriesModes
      /\ md.titleel # << >> /\ cons.mangle_meta_title

\* Faulty variant: the sort title goes by the flag of the title.
MangleSort_TitleFlag(cons, md) ==
    md.series # << >> /\ cons.foldermode \in SeriesModes
      /\ md.sortel # << >> /\ cons.mangle_meta_title

MangleSort(cons, md) ==
    md.series # << >> /\ cons.foldermode \in SeriesModes
      /\ md.sortel # << >> /\ cons.mangle_meta_title_sort

MangleDescription(cons, md) ==
    md.series # << >> /\ cons.foldermode \in SeriesModes /\ md.descel # << >>

\* titleel.firstChild.data or descel.firstChild.data of an element without child.
MangleRaises(cons, md) ==
    \/ MangleTitle(cons, md) /\ HasNoChild(md.titleel[1])
    \/ MangleDescription(cons, md) /\ HasNoChild(md.descel[1])

\* What is serialized: title, title_sort and description as they leave do_metadata.
ExportedDoc(cons, md) ==
    [ kind |-> "xml",
      title |-> IF MangleTitle(cons, md)
                THEN [ md.doc[1].title EXCEPT
                         ![1] = << Prefix(md) \o md.titleel[1][1] >> ]
                ELSE md.doc[1].title,
      title_sort |-> IF MangleSort(cons, md)
                     THEN << Prefix(md) \o md.sortel[1] >>
                     ELSE md.sortel,
      description |-> IF MangleDescription(cons, md)
                      THEN [ md.doc[1].description EXCEPT
                               ![1] = << DescriptionHeader(md) \o md.descel[1][1] >> ]
                      ELSE md.doc[1].description ]

(***************************************************************************)
(* Bounds                                                                  *)
(***************************************************************************)

\* Invocations of main() in one behaviour.
MaxRuns == 2
\* Ticks of the file system clock: each touch of a source file takes one.
MaxClock == 1
\* Operating system calls (mkdir, symlink, utime, open, write) that fail
\* although the state of the destination allows them.
MaxFaults == 1

(***************************************************************************)
(* State                                                                   *)
(***************************************************************************)

VARIABLES
    config,       \* the [Construct] sections of the configuration file, in order
    src,          \* the Calibre store: slot -> book folder
    dirs,         \* the folders of the Jellyfin store
    dst,          \* the files of the Jellyfin store: File -> symlink or metadata file
    now,          \* the file system clock
    pc,           \* where main() is
    CMDARGS,      \* the parsed command line of the running invocation
    sec,          \* main: the position of the for loop over the sections
    construct,    \* main: the Construct of the section being exported
    todo,         \* Construct.do: the book folders still to iterate, in order
    book,         \* the Book being processed
    report,       \* the global report list
    exit_status,  \* how the last invocation ended: "" while none has
    runs,         \* invocations started
    faults,       \* failed operating system calls so far
    written,      \* history: the writes of the running (or last) invocation
    reported,     \* history: which book of which section appended a report line
    hist,         \* history: what happened to the current book
    prev          \* history: the invocation before, and the source changes since

vars == << config, src, dirs, dst, now, pc, CMDARGS, sec, construct, todo, book,
           report, exit_status, runs, faults, written, reported, hist, prev >>

Slots == DOMAIN src

NoBook == EmptyBook(0, << >>)
NoConstruct ==
    Construct(Section("all", "book", << >>, << >>, << >>, FALSE, FALSE), << >>)
NoArgs == [ updateAllMetadata |-> FALSE, dryrun |-> FALSE, list_spec |-> << >> ]
NoHist ==
    [ slot |-> 0, mkdir_failed |-> FALSE, write |-> "none",
      file |-> File(<< >>, None), before |-> << >> ]
NoPrev == [ clean |-> FALSE, touched |-> {}, failed |-> FALSE ]

\* A write to the destination: op is mkdir, symlink, utime, write or truncate.
Write(op, dir, name) ==
    [ op |-> op, dir |-> dir, name |-> name, sec |-> sec, by |-> book.slot ]

(***************************************************************************)
(* The file system calls on the destination                                *)
(***************************************************************************)

\* The folders Path.mkdir(parents=True) has to create, shortest first.
Missing(path) ==
    { k \in 1..Len(path) : SubSeq(path, 1, k) \notin dirs }

\* Path.exists() follows a symlink: a link whose target is gone does not exist.
SourceExists(target) ==
    target.slot \in Slots /\ target.name \in DOMAIN src[target.slot].mtime

Exists(file) ==
    /\ file \in DOMAIN dst
    /\ dst[file].kind = "link" => SourceExists(dst[file].target)

\* stat(): of the link itself (follow_symlinks=False), of a source file.
LinkMtime(file) == dst[file].mtime
SrcMtime(slot, name) == src[slot].mtime[name]

Symlink(slot, name) ==
    [ kind |-> "link", target |-> [ slot |-> slot, name |-> name ], mtime |-> now ]

Regular(content) == [ kind |-> "file", content |-> content, mtime |-> now ]

Put(file, entry) == (file :> entry) @@ dst

\* symlink_to() can succeed: the folder is there and the name is free.
CanSymlink(file, folders) == file.dir \in folders /\ file \notin DOMAIN dst

\* Faulty variant: open creates the file whether the folder is there or not.
CanOpen_Anywhere(file) == TRUE

\* open(path, 'w') can succeed: the folder is there.
CanOpen(file) == file.dir \in dirs

CanFail == faults < MaxFaults

(***************************************************************************)
(* Book.do_book and Book.do_cover: create the symlink, or touch it         *)
(***************************************************************************)

\* Faulty variants: a link as old as its source is touched; no link ever is.
OutOfDate_OrEqual(file, slot, name) == LinkMtime(file) <= SrcMtime(slot, name)
OutOfDate_Never(file, slot, name) == FALSE

\* The source is newer than the link itself.
OutOfDate(file, slot, name) == LinkMtime(file) < SrcMtime(slot, name)

Outcome(d, w, failed, fault) ==
    [ dst |-> d, w |-> w, failed |-> failed, fault |-> fault ]

\* What the touch-or-create of one symlink can do, the folders being folders.
SyncLink(file, slot, name, folders) ==
    IF Exists(file)
    THEN IF OutOfDate(file, slot, name)
         THEN { Outcome([ dst EXCEPT ![file].mtime = now ],
                        { Write("utime", file.dir, file.name) }, FALSE, FALSE) }
                \cup { Outcome(dst, {}, TRUE, TRUE) : x \in { y \in {1} : CanFail } }
         ELSE { Outcome(dst, {}, FALSE, FALSE) }
    ELSE IF CanSymlink(file, folders)
         THEN { Outcome(Put(file, Symlink(slot, name)),
                        { Write("symlink", file.dir, file.name) }, FALSE, FALSE) }
                \cup { Outcome(dst, {}, TRUE, TRUE) : x \in { y \in {1} : CanFail } }
         ELSE { Outcome(dst, {}, TRUE, FALSE) }

Failed(o) == [ prev EXCEPT !.failed = @ \/ o.failed ]
Faults(o) == IF o.fault THEN faults + 1 ELSE faults

\* do_book, the folder created.
DoBook ==
    /\ pc = "do_book"
    /\ LET path == book.book_folder_dst_path
           made == { SubSeq(path, 1, k) : k \in Missing(path) }
       IN  \E o \in SyncLink(book_file_dst_path(book), book.slot,
                             book.book_file_src_path, dirs \cup made) :
             /\ dirs' = dirs \cup made
             /\ dst' = o.dst
             /\ written' = written \cup { Write("mkdir", p, None) : p \in made } \cup o.w
             /\ prev' = Failed(o)
             /\ faults' = Faults(o)
    /\ pc' = "do_cover"
    /\ UNCHANGED << config, src, now, CMDARGS, sec, construct, todo, book, report,
                    exit_status, runs, reported, hist >>

\* do_book, mkdir raising OSError at the missing folder f, the ones above it made:
\* the warning, and the return from do_book.
DoBookMkdirFails ==
    /\ pc = "do_book"
    /\ CanFail
    /\ LET path == book.book_folder_dst_path
       IN  /\ path \notin dirs
           /\ \E f \in Missing(path) :
                LET made == { SubSeq(path, 1, j) : j \in { i \in Missing(path) : i < f } }
                IN  /\ dirs' = dirs \cup made
                    /\ written' = written \cup { Write("mkdir", p, None) : p \in made }
    /\ faults' = faults + 1
    /\ prev' = [ prev EXCEPT !.failed = TRUE ]
    /\ hist' = [ hist EXCEPT !.mkdir_failed = TRUE ]
    /\ pc' = "do_cover"
    /\ UNCHANGED << config, src, dst, now, CMDARGS, sec, construct, todo, book,
                    report, exit_status, runs, reported >>

DoCover ==
    /\ pc = "do_cover"
    /\ IF book.cover_file_src_path # None
       THEN \E o \in SyncLink(cover_file_dst_path(book), book.slot,
                              book.cover_file_src_path, dirs) :
              /\ dst' = o.dst
              /\ written' = written \cup o.w
              /\ prev' = Failed(o)
              /\ faults' = Faults(o)
       ELSE UNCHANGED << dst, written, prev, faults >>
    /\ pc' = "do_metadata"
    /\ UNCHANGED << config, src, dirs, now, CMDARGS, sec, construct, todo, book,
                    report, exit_status, runs, reported, hist >>

(***************************************************************************)
(* Book.do_metadata and BookMetadata.write                                 *)
(***************************************************************************)

\* Faulty variant: a destination as old as the source is rewritten.
CopyMetadata_OrEqual(file, slot, name) ==
    IF CMDARGS.updateAllMetadata THEN TRUE
    ELSE IF Exists(file) THEN dst[file].mtime <= SrcMtime(slot, name)
    ELSE TRUE

\* copy_metadata
CopyMetadata(file, slot, name) ==
    IF CMDARGS.updateAllMetadata THEN TRUE
    ELSE IF Exists(file) THEN dst[file].mtime < SrcMtime(slot, name)
    ELSE TRUE

Before(file) == IF file \in DOMAIN dst THEN << dst[file] >> ELSE << >>

\* BookMetadata.write: open(..., 'w') creates or truncates the file, writexml
\* fills it; either can raise OSError, which is logged.
WriteMetadata(file, content) ==
    IF CanOpen(file)
    THEN { Outcome(Put(file, Regular(content)),
                   { Write("write", file.dir, file.name) }, FALSE, FALSE) }
           \cup { Outcome(dst, {}, TRUE, TRUE) : x \in { y \in {1} : CanFail } }
           \cup { Outcome(Put(file, Regular(Truncated)),
                          { Write("truncate", file.dir, file.name) }, TRUE, TRUE) :
                    x \in { y \in {1} : CanFail } }
    ELSE { Outcome(dst, {}, TRUE, FALSE) }

WriteResult(o) ==
    IF ~o.failed THEN "ok"
    ELSE IF o.w = {} THEN "open_failed" ELSE "write_failed"

\* do_metadata returning: the document is written, or need not be.
DoMetadata ==
    /\ pc = "do_metadata"
    /\ LET md == book.metadata
           file == metadata_file_dst_path(book)
       IN  IF md.doc # << >> /\ book.metadata_file_src_path # None
           THEN IF CopyMetadata(file, book.slot, book.metadata_file_src_path)
                THEN /\ ~MangleRaises(construct, md)
                     /\ \E o \in WriteMetadata(file, ExportedDoc(construct, md)) :
                          /\ dst' = o.dst
                          /\ written' = written \cup o.w
                          /\ prev' = Failed(o)
                          /\ faults' = Faults(o)
                          /\ hist' = [ hist EXCEPT !.write = WriteResult(o),
                                                   !.file = file,
                                                   !.before = Before(file) ]
                ELSE UNCHANGED << dst, written, prev, faults, hist >>
           ELSE UNCHANGED << dst, written, prev, faults, hist >>
    /\ pc' = "books"
    /\ book' = NoBook
    /\ UNCHANGED << config, src, dirs, now, CMDARGS, sec, construct, todo, report,
                    exit_status, runs, reported >>

\* do_metadata raising AttributeError while it mangles an element that has
\* no text: nothing catches it, the interpreter exits with the traceback.
DoMetadataRaises ==
    /\ pc = "do_metadata"
    /\ book.metadata.doc # << >> /\ book.metadata_file_src_path # None
    /\ CopyMetadata(metadata_file_dst_path(book), book.slot,
                    book.metadata_file_src_path)
    /\ MangleRaises(construct, book.metadata)
    /\ pc' = "idle"
    /\ exit_status' = "AttributeError"
    /\ prev' = NoPrev
    /\ UNCHANGED << config, src, dirs, dst, now, CMDARGS, sec, construct, todo, book,
                    report, runs, faults, written, reported, hist >>

(***************************************************************************)
(* Book.do_list and Book.do                                                *)
(***************************************************************************)

RECURSIVE JoinTabs(_)
JoinTabs(cols) ==
    IF cols = << >> THEN << >>
    ELSE IF Len(cols) = 1 THEN cols[1]
    ELSE cols[1] \o << "\t" >> \o JoinTabs(Tail(cols))

\* self.list_format.format(...): the columns of --list, tab separated.
Column(col, b) ==
    CASE col = "author"  -> b.metadata.author
      [] col = "subject" -> b.matched_subject
      [] col = "section" -> construct.section_name
      [] col = "book"    -> IF b.metadata.titleel # << >>
                            THEN b.metadata.titleel[1][1] ELSE << >>
      [] col = "bfolder" -> src[b.slot].folder
      [] col = "afolder" -> src[b.slot].author

ReportLine(b) ==
    JoinTabs([ i \in DOMAIN CMDARGS.list_spec |-> Column(CMDARGS.list_spec[i], b) ])

\* do_list reads titleel.firstChild.data whatever the columns are.
ListRaises(b) == b.metadata.titleel # << >> /\ HasNoChild(b.metadata.titleel[1])

\* Faulty variant: the selection mode is not looked at.
Skipped_NoBookFileOnly(b) == b.book_file_src_path = None

\* The book is left out: no book file, or subject mode and no document or no match.
Skipped(b) ==
    \/ b.book_file_src_path = None
    \/ /\ construct.selection_mode = "subject"
       /\ \/ b.metadata.doc = << >>
          \/ ~check_subjects(construct.subjects, b.metadata.subjects).result

\* check_subjects leaves the matched line in the book.
Matched(b) ==
    IF construct.selection_mode = "subject"
    THEN [ b EXCEPT !.matched_subject =
             check_subjects(construct.subjects, b.metadata.subjects).matched_subject ]
    ELSE b

\* Faulty variant: --dryrun is not looked at.
Do_DryRunExports ==
    /\ pc = "do"
    /\ IF Skipped(book)
       THEN /\ pc' = "books"
            /\ book' = NoBook
            /\ UNCHANGED << report, reported >>
       ELSE IF CMDARGS.list_spec # << >>
       THEN /\ ~ListRaises(book)
            /\ LET line == ReportLine(Matched(book))
               IN  IF "book" \notin Range(CMDARGS.list_spec) /\ line \in Range(report)
                   THEN UNCHANGED << report, reported >>
                   ELSE /\ report' = Append(report, line)
                        /\ reported' = reported \cup
                                         { [ sec |-> sec, by |-> book.slot ] }
            /\ pc' = "books"
            /\ book' = NoBook
       ELSE /\ pc' = "do_book"
            /\ book' = Matched(book)
            /\ UNCHANGED << report, reported >>
    /\ UNCHANGED << config, src, dirs, dst, now, CMDARGS, sec, construct, todo,
                    exit_status, runs, faults, written, hist, prev >>

\* Book.do down to the calls of do_book, do_cover and do_metadata.
Do ==
    /\ pc = "do"
    /\ IF Skipped(book)
       THEN /\ pc' = "books"
            /\ book' = NoBook
            /\ UNCHANGED << report, reported >>
       ELSE IF CMDARGS.list_spec # << >>
       THEN /\ ~ListRaises(book)
            /\ LET line == ReportLine(Matched(book))
               IN  IF "book" \notin Range(CMDARGS.list_spec) /\ line \in Range(report)
                   THEN UNCHANGED << report, reported >>
                   ELSE /\ report' = Append(report, line)
                        /\ reported' = reported \cup
                                         { [ sec |-> sec, by |-> book.slot ] }
            /\ pc' = "books"
            /\ book' = NoBook
       ELSE IF CMDARGS.dryrun
       THEN /\ pc' = "books"
            /\ book' = NoBook
            /\ UNCHANGED << report, reported >>
       ELSE /\ pc' = "do_book"
            /\ book' = Matched(book)
            /\ UNCHANGED << report, reported >>
    /\ UNCHANGED << config, src, dirs, dst, now, CMDARGS, sec, construct, todo,
                    exit_status, runs, faults, written, hist, prev >>

\* do_list raising AttributeError on a title element without text.
DoListRaises ==
    /\ pc = "do"
    /\ ~Skipped(book)
    /\ CMDARGS.list_spec # << >>
    /\ ListRaises(book)
    /\ pc' = "idle"
    /\ exit_status' = "AttributeError"
    /\ prev' = NoPrev
    /\ UNCHANGED << config, src, dirs, dst, now, CMDARGS, sec, construct, todo, book,
                    report, runs, faults, written, reported, hist >>

(***************************************************************************)
(* Construct.do: do_books_by_author and do_books_all                       *)
(***************************************************************************)

SlotSeq == [ i \in 1..Cardinality(Slots) |-> i ]

\* The book folders of an author folder, in the order iterdir() lists them.
BooksOf(author) == SelectSeq(SlotSeq, LAMBDA i : src[i].author = author)

RECURSIVE BooksOfAll(_)
BooksOfAll(authors) ==
    IF authors = << >> THEN << >>
    ELSE BooksOf(Head(authors)) \o BooksOfAll(Tail(authors))

\* The author folders of the store, in the order iterdir() lists them.
RECURSIVE AuthorListing(_, _)
AuthorListing(i, seen) ==
    IF i > Cardinality(Slots) THEN << >>
    ELSE IF src[i].author \in seen \/ SubSeq(src[i].author, 1, 1) = << "." >>
         THEN AuthorListing(i + 1, seen)
         ELSE << src[i].author >> \o AuthorListing(i + 1, seen \cup { src[i].author })

\* The book folders a Construct iterates, in order.
Enumerate(cons) ==
    IF cons.selection_mode = "author"
    THEN BooksOfAll(cons.author_folders)
    ELSE BooksOfAll(AuthorListing(1, {}))

\* book = Book(...): the constructor returns.
NewBook ==
    /\ pc = "books"
    /\ todo # << >>
    /\ ~BookInit(construct, Head(todo), src[Head(todo)]).raised
    /\ book' = BookInit(construct, Head(todo), src[Head(todo)])
    /\ todo' = Tail(todo)
    /\ hist' = [ NoHist EXCEPT !.slot = Head(todo) ]
    /\ pc' = "do"
    /\ UNCHANGED << config, src, dirs, dst, now, CMDARGS, sec, construct, report,
                    exit_status, runs, faults, written, reported, prev >>

\* book = Book(...): BookMetadata raises AttributeError on a creator or
\* subject element without text, and nothing catches it.
NewBookRaises ==
    /\ pc = "books"
    /\ todo # << >>
    /\ BookInit(construct, Head(todo), src[Head(todo)]).raised
    /\ book' = BookInit(construct, Head(todo), src[Head(todo)])
    /\ todo' = Tail(todo)
    /\ hist' = NoHist
    /\ pc' = "idle"
    /\ exit_status' = "AttributeError"
    /\ prev' = NoPrev
    /\ UNCHANGED << config, src, dirs, dst, now, CMDARGS, sec, construct, report,
                    runs, faults, written, reported >>

\* The loops over the author folders and their book folders end.
BooksDone ==
    /\ pc = "books"
    /\ todo = << >>
    /\ sec' = sec + 1
    /\ pc' = "main"
    /\ UNCHANGED << config, src, dirs, dst, now, CMDARGS, construct, todo, book,
                    report, exit_status, runs, faults, written, reported, hist, prev >>

(***************************************************************************)
(* main                                                                    *)
(***************************************************************************)

SectionName(i) == << "C", << "1", "2", "3" >>[i] >>

\* A run that made every change it found to make.
Clean ==
    ~prev.failed /\ ~CMDARGS.dryrun /\ CMDARGS.list_spec = << >>

\* calibre2jellyfin is started with the command line args.
StartRun(args) ==
    /\ pc = "idle"
    /\ runs < MaxRuns
    /\ runs' = runs + 1
    /\ CMDARGS' = args
    /\ sec' = 1
    /\ pc' = "main"
    /\ exit_status' = ""
    /\ report' = << >>
    /\ written' = {}
    /\ reported' = {}
    /\ hist' = NoHist
    /\ book' = NoBook
    /\ todo' = << >>
    /\ construct' = NoConstruct
    /\ prev' = [ prev EXCEPT !.failed = FALSE ]
    /\ UNCHANGED << config, src, dirs, dst, now, faults >>

\* construct = Construct(config[section]) returns; construct.do() begins.
ConstructOk ==
    /\ pc = "main"
    /\ sec <= Len(config)
    /\ ConstructInit(config[sec]) = "ok"
    /\ construct' = Construct(config[sec], SectionName(sec))
    /\ todo' = Enumerate(Construct(config[sec], SectionName(sec)))
    /\ pc' = "books"
    /\ UNCHANGED << config, src, dirs, dst, now, CMDARGS, sec, book, report,
                    exit_status, runs, faults, written, reported, hist, prev >>

\* Construct raises KeyError or ValueError: logging.critical and sys.exit(-1).
ConstructFails ==
    /\ pc = "main"
    /\ sec <= Len(config)
    /\ ConstructInit(config[sec]) # "ok"
    /\ pc' = "idle"
    /\ exit_status' = "-1"
    /\ prev' = NoPrev
    /\ CMDARGS' = NoArgs
    /\ construct' = NoConstruct
    /\ report' = << >>
    /\ hist' = NoHist
    /\ UNCHANGED << config, src, dirs, dst, now, sec, todo, book, runs, faults,
                    written, reported >>

\* The loop over the sections ends: the report is printed, main returns.
MainDone ==
    /\ pc = "main"
    /\ sec > Len(config)
    /\ pc' = "idle"
    /\ exit_status' = "0"
    /\ prev' = [ clean |-> Clean, touched |-> {}, failed |-> FALSE ]
    /\ CMDARGS' = NoArgs
    /\ construct' = NoConstruct
    /\ sec' = 1
    /\ report' = << >>
    /\ hist' = NoHist
    /\ UNCHANGED << config, src, dirs, dst, now, todo, book, runs, faults, written,
                    reported >>

(***************************************************************************)
(* The environment: between two runs a source file is modified             *)
(***************************************************************************)

TouchSource(slot, name) ==
    /\ pc = "idle"
    /\ runs > 0
    /\ now < MaxClock
    /\ name \in DOMAIN src[slot].mtime
    /\ now' = now + 1
    /\ src' = [ src EXCEPT ![slot].mtime[name] = now + 1 ]
    /\ prev' = [ prev EXCEPT !.touched = @ \cup { [ slot |-> slot, name |-> name ] } ]
    /\ UNCHANGED << config, dirs, dst, pc, CMDARGS, sec, construct, todo, book,
                    report, exit_status, runs, faults, written, reported, hist >>

(***************************************************************************)
(* Configurations and stores                                               *)
(***************************************************************************)

FolderModes == {"book", "series,book", "author,series,book"}
SelectionModes == {"author", "subject", "all"}

\* subjects: " fantasy,adventure" and "x"
Query == << << << " " >> \o Fantasy, Adventure >>, << SciFi >> >>

ValidSection(selectionMode, foldermode) ==
    Section(selectionMode, foldermode, << AuthorB, AuthorA >>, Query,
            << "epub", "pdf" >>, TRUE, FALSE)

ValidSections ==
    { ValidSection(sm, fm) : sm \in SelectionModes, fm \in FolderModes }

\* One section for each fatal configuration error.
InvalidSections ==
    LET v == ValidSection("all", "series,book")
        a == ValidSection("author", "series,book")
        s == ValidSection("subject", "series,book")
    IN  { [ v EXCEPT !.lacks = {"calibreStore"} ],
          [ a EXCEPT !.lacks = {"authorFolders"} ],
          [ v EXCEPT !.calibreIsDir = FALSE ],
          [ v EXCEPT !.jellyfinIsDir = FALSE ],
          [ v EXCEPT !.samefile = TRUE ],
          [ v EXCEPT !.foldermode = "author,book" ],
          [ v EXCEPT !.selectionMode = "title" ],
          [ a EXCEPT !.authorFolders = << << >> >> ],
          [ s EXCEPT !.subjects = << << << >> >> >> ],
          [ v EXCEPT !.bookfiletypes = << "" >> ] }

Configs ==
    { << v >> : v \in ValidSections }
      \cup { << [ ValidSection("all", "author,series,book") EXCEPT
                      !.mangleMetaTitle = FALSE, !.mangleMetaTitleSort = TRUE ] >> }
      \cup { << ValidSection("all", "series,book"),
                [ ValidSection("all", "book") EXCEPT !.samefile = TRUE ] >> }

\* Two sections, one of them with a fatal error.
FaultyConfigs ==
    { << ValidSection("all", "series,book"), i >> : i \in InvalidSections }
      \cup { << i, ValidSection("all", "book") >> : i \in InvalidSections }
      \cup { << ValidSection("all", "book"), ValidSection("subject", "series,book") >> }

\* The files and the metadata of a book folder.
Full              == << {"book.epub", CoverName, OpfName}, DocFull >>
NoSeries          == << {"book.epub", "book.pdf", OpfName}, DocNoSeries >>
NoBookFile        == << {"notes.txt", CoverName, OpfName}, DocFull >>
PdfOnly           == << {"book.pdf"}, DocBare >>
UnreadableOpf     == << {"book.epub", CoverName, OpfName}, Unreadable >>
MalformedOpf      == << {"book.epub", OpfName}, Malformed >>
SeriesNoIndex     == << {"book.epub", CoverName, OpfName}, DocSeriesNoIndex >>
Fraction          == << {"book.epub", OpfName}, DocFraction >>
Bare              == << {"book.epub", OpfName}, DocBare >>
EmptyCreator      == << {"book.epub", OpfName}, DocEmptyCreator >>
EmptySubject      == << {"book.epub", OpfName}, DocEmptySubject >>
EmptyTitle        == << {"book.epub", CoverName, OpfName}, DocEmptyTitle >>
EmptyDescription  == << {"book.epub", OpfName}, DocEmptyDescription >>

\* A store of two book folders: A/bk, and B/bk or A/b:k.
Store(c1, c2, author, folder) ==
    << BookFolder(AuthorA, FolderBk, c1[1], c1[2]),
       BookFolder(author, folder, c2[1], c2[2]) >>

Stores ==
    { Store(Full, NoSeries, AuthorB, FolderBk),
      Store(NoBookFile, Full, AuthorA, FolderDot),
      Store(EmptyCreator, Full, AuthorB, FolderBk),
      Store(Full, EmptyTitle, AuthorA, FolderDot),
      Store(UnreadableOpf, MalformedOpf, AuthorB, FolderBk),
      Store(SeriesNoIndex, Fraction, AuthorA, FolderDot),
      Store(PdfOnly, Bare, AuthorB, FolderBk),
      Store(EmptySubject, EmptyDescription, AuthorA, FolderDot),
      Store(NoSeries, NoSeries, AuthorB, FolderBk) }

\* The command lines: none of the options, each option alone, and --list
\* with and without the book column.
Args ==
    { NoArgs,
      [ NoArgs EXCEPT !.updateAllMetadata = TRUE ],
      [ NoArgs EXCEPT !.dryrun = TRUE ],
      [ NoArgs EXCEPT !.list_spec = << "author" >> ],
      [ NoArgs EXCEPT !.list_spec = << "book", "bfolder" >> ] }

(***************************************************************************)
(* The specification                                                       *)
(***************************************************************************)

InitWith(configs, stores) ==
    /\ config \in configs
    /\ src \in stores
    /\ dirs = { << >> }
    /\ dst = << >>
    /\ now = 0
    /\ pc = "idle"
    /\ CMDARGS = NoArgs
    /\ sec = 1
    /\ construct = NoConstruct
    /\ todo = << >>
    /\ book = NoBook
    /\ report = << >>
    /\ exit_status = ""
    /\ runs = 0
    /\ faults = 0
    /\ written = {}
    /\ reported = {}
    /\ hist = NoHist
    /\ prev = NoPrev

Init == InitWith(Configs, Stores)

Next ==
    \/ \E args \in Args : StartRun(args)
    \/ ConstructOk
    \/ ConstructFails
    \/ MainDone
    \/ NewBook
    \/ NewBookRaises
    \/ BooksDone
    \/ Do
    \/ DoListRaises
    \/ DoBook
    \/ DoBookMkdirFails
    \/ DoCover
    \/ DoMetadata
    \/ DoMetadataRaises
    \/ \E slot \in Slots : \E name \in DOMAIN src[slot].mtime : TouchSource(slot, name)

Spec == Init /\ [][Next]_vars

\* The same program on the configurations of two sections.
ConfigStores ==
    { Store(Full, NoSeries, AuthorA, FolderDot),
      Store(Full, EmptyTitle, AuthorB, FolderBk),
      Store(EmptyCreator, NoSeries, AuthorB, FolderBk) }

InitConfig == InitWith(FaultyConfigs, ConfigStores)

SpecConfig == InitConfig /\ [][Next]_vars

(***************************************************************************)
(* Book.check_subjects on its own                                          *)
(*                                                                         *)
(* The subject lines of a Construct and the subjects of a book are drawn    *)
(* from bounded sets; the one step is the call of check_subjects.           *)
(***************************************************************************)

MaxLines == 2
MaxItems == 2

ItemX == << "x" >>
ItemA == << "a" >>
ItemB == << "b" >>
PadFantasy == << " " >> \o Fantasy \o << "\t" >>

\* The items of a subject line as split(',') leaves them: lower case, not
\* stripped, possibly empty.
LineItems == { Fantasy, PadFantasy, Adventure, ItemX, ItemA, ItemB, << >> }

SubjectLines == UNION { [ 1..k -> LineItems ] : k \in 1..MaxItems }

SubjectQueries == UNION { [ 1..k -> SubjectLines ] : k \in 1..MaxLines }

\* The subjects of a book as BookMetadata leaves them: lower case, stripped.
BookSubjects ==
    { << >>, << Fantasy >>, << Fantasy, Adventure >>, << Adventure, Fantasy >>,
      << ItemX >>, << ItemA >>, << ItemB, ItemX >>, << << >>, ItemA >> }

InitSubjects ==
    /\ src = Store(Full, NoSeries, AuthorB, FolderBk)
    /\ config = << ValidSection("subject", "book") >>
    /\ dirs = { << >> } /\ dst = << >> /\ now = 0
    /\ CMDARGS = NoArgs /\ sec = 1 /\ todo = << >> /\ report = << >>
    /\ exit_status = "" /\ runs = 0 /\ faults = 0
    /\ written = {} /\ reported = {} /\ hist = NoHist /\ prev = NoPrev
    /\ pc = "check_subjects"
    /\ \E lines \in SubjectQueries :
         construct = [ NoConstruct EXCEPT !.selection_mode = "subject",
                                          !.subjects = lines ]
    /\ \E subjects \in BookSubjects :
         book = [ NoBook EXCEPT !.metadata.subjects = subjects ]

\* self.check_subjects(): the result, and the matched line left in the book.
CheckSubjects ==
    /\ pc = "check_subjects"
    /\ LET r == check_subjects(construct.subjects, book.metadata.subjects)
       IN  /\ pc' = IF r.result THEN "matched" ELSE "unmatched"
           /\ book' = IF r.result
                      THEN [ book EXCEPT !.matched_subject = r.matched_subject ]
                      ELSE book
    /\ UNCHANGED << config, src, dirs, dst, now, CMDARGS, sec, construct, todo,
                    report, exit_status, runs, faults, written, reported, hist,
                    prev >>

NextSubjects == CheckSubjects

SpecSubjects == InitSubjects /\ [][NextSubjects]_vars

(***************************************************************************)
(* sanitize_filename on its own                                            *)
(*                                                                         *)
(* The string is drawn from the strings of bounded length over characters   *)
(* of every kind the three substitutions tell apart; it is sanitized, and   *)
(* the result is sanitized again.  The results are kept as the components   *)
(* of the book's destination path.                                          *)
(***************************************************************************)

MaxName == 6

Names ==
    UNION { [ 1..k -> { " ", ".", "c", "O", "n", ":", "\t" } ] : k \in 0..MaxName }

InitSanitize ==
    /\ src = Store(Full, NoSeries, AuthorB, FolderBk)
    /\ config = << ValidSection("all", "series,book") >>
    /\ dirs = { << >> } /\ dst = << >> /\ now = 0
    /\ CMDARGS = NoArgs /\ sec = 1 /\ todo = << >> /\ report = << >>
    /\ exit_status = "" /\ runs = 0 /\ faults = 0
    /\ written = {} /\ reported = {} /\ hist = NoHist /\ prev = NoPrev
    /\ construct = NoConstruct
    /\ pc = "sanitize"
    /\ \E sani \in Names : book = [ NoBook EXCEPT !.book_folder = sani ]

\* sanitize_filename(book_folder)
Sanitize ==
    /\ pc = "sanitize"
    /\ pc' = "sanitized"
    /\ book' = [ book EXCEPT !.book_folder_dst_path =
                                << sanitize_filename(book.book_folder) >> ]
    /\ UNCHANGED << config, src, dirs, dst, now, CMDARGS, sec, construct, todo,
                    report, exit_status, runs, faults, written, reported, hist,
                    prev >>

\* sanitize_filename of the result
SanitizeAgain ==
    /\ pc = "sanitized"
    /\ pc' = "sanitized_again"
    /\ book' = [ book EXCEPT !.book_folder_dst_path =
                                @ \o << sanitize_filename(@[1]) >> ]
    /\ UNCHANGED << config, src, dirs, dst, now, CMDARGS, sec, construct, todo,
                    report, exit_status, runs, faults, written, reported, hist,
                    prev >>

NextSanitize == Sanitize \/ SanitizeAgain

SpecSanitize == InitSanitize /\ [][NextSanitize]_vars

(***************************************************************************)
(* What the claims speak of                                                *)
(***************************************************************************)

\* The writes that change a symlink or a metadata file.
FileOps == {"symlink", "utime", "write", "truncate"}

\* main has iterated every section and is about to return.
RunEnds == pc = "main" /\ sec > Len(config)

\* The running invocation exports: neither --dryrun nor --list.
Exporting == ~CMDARGS.dryrun /\ CMDARGS.list_spec = << >>

\* The book folder has a file with one of the section's extensions.
HasBookFile(slot, s) ==
    \E n \in DOMAIN src[slot].mtime : Extension[n] \in Range(config[s].bookfiletypes)

\* The book section s makes of a book folder.
BookOf(slot, s) == BookInit(Construct(config[s], SectionName(s)), slot, src[slot])

\* The book folder's metadata parsed and one subject line of section s has
\* every item among the book's subjects.
SubjectsOf(slot) ==
    { Strip(Lower(src[slot].opf.subject[i][1])) : i \in DOMAIN src[slot].opf.subject }

Selected(slot, s) ==
    /\ OpfName \in DOMAIN src[slot].mtime
    /\ src[slot].opf.kind = "xml"
    /\ \E i \in DOMAIN config[s].subjects :
         \A j \in DOMAIN config[s].subjects[i] :
           Strip(Lower(config[s].subjects[i][j])) \in SubjectsOf(slot)

(***************************************************************************)
(* C1  Idempotent re-run                                                   *)
(***************************************************************************)

\* C1: after a run that exported everything without a failure, a second run
\* with the same configuration, without --update-all-metadata and with no
\* source file changed in between, writes nothing to the destination.
C1_IdempotentRerun ==
    (pc # "idle" /\ prev.clean /\ prev.touched = {} /\ ~CMDARGS.updateAllMetadata)
      => written = {}

\* The second run has gone through every book of a store it had exported.
C1_Witness ==
    /\ RunEnds /\ prev.clean /\ prev.touched = {}
    /\ ~CMDARGS.updateAllMetadata /\ Exporting
    /\ \E f \in DOMAIN dst : dst[f].kind = "file"
    /\ \E f \in DOMAIN dst : dst[f].kind = "link"

(***************************************************************************)
(* C2  Frame of a source-book touch                                        *)
(***************************************************************************)

\* Between the runs exactly the book file of one book folder was touched.
TouchedBook(t) ==
    /\ prev.touched = { t }
    /\ t.name = find_book(src[t.slot], config[1].bookfiletypes)

\* w is the touch of the symlink to the book file t.
IsTouchOf(w, t) ==
    /\ w.op = "utime"
    /\ w.by = t.slot
    /\ File(w.dir, w.name) = book_file_dst_path(BookOf(t.slot, w.sec))

\* C2 as claimed: after a clean export, the book file touched and the export
\* run again, the only write is the touch of the book's symlink.
C2_Original ==
    \A t \in prev.touched :
      (pc # "idle" /\ prev.clean /\ TouchedBook(t)) =>
        \A w \in written : IsTouchOf(w, t)

\* C2 as amended: the same without --update-all-metadata; and at the end of
\* an exporting run in which no call failed, the symlink that points at the
\* touched file has been touched.
C2_TouchFrame ==
    \A t \in prev.touched :
      (pc # "idle" /\ prev.clean /\ TouchedBook(t) /\ ~CMDARGS.updateAllMetadata) =>
        /\ \A w \in written : IsTouchOf(w, t)
        /\ ( /\ RunEnds /\ Exporting /\ ~prev.failed
             /\ \E f \in DOMAIN dst : dst[f].kind = "link" /\ dst[f].target = t )
           => /\ \E w \in written : IsTouchOf(w, t)
              /\ \A f \in DOMAIN dst :
                   (dst[f].kind = "link" /\ dst[f].target = t) => dst[f].mtime = now

\* The re-run has touched the symlink of a book that has a cover and metadata.
C2_Witness ==
    \E t \in prev.touched :
      /\ RunEnds /\ prev.clean /\ TouchedBook(t) /\ ~CMDARGS.updateAllMetadata
      /\ written # {}
      /\ CoverName \in DOMAIN src[t.slot].mtime
      /\ \E f \in DOMAIN dst : dst[f].kind = "file"

(***************************************************************************)
(* C3  Destination layout                                                  *)
(***************************************************************************)

BookSteps == {"do", "do_book", "do_cover", "do_metadata"}

SeriesSuffix == << " ","S","e","r","i","e","s" >>

\* C3: a book with a series, in a folder mode that nests by series, goes to
\* <series-root>/sanitize(series + ' Series')/sanitize(index + ' - ' + folder);
\* every other book goes to <store>/<folder> or <author>/<folder>.  Foo, 3,
\* 'series,book' gives Foo Series/003 - bk.
C3_DestinationLayout ==
    (pc \in BookSteps /\ book.book_file_src_path # None) =>
      LET md == book.metadata
          folder == src[book.slot].folder
          fm == construct.foldermode
          root == IF fm = "author,series,book"
                  THEN << src[book.slot].author >> ELSE << >>
          path == book.book_folder_dst_path
      IN  /\ (md.series # << >> /\ fm \in {"series,book", "author,series,book"})
               => path = root \o << sanitize_filename(md.series \o SeriesSuffix),
                                    sanitize_filename(md.formatted_series_index
                                        \o << " ", "-", " " >> \o folder) >>
          /\ ~(md.series # << >> /\ fm \in {"series,book", "author,series,book"})
               => path = root \o << folder >>
          /\ (md.series = Foo /\ md.series_index = Idx3 /\ fm = "series,book"
                /\ folder = FolderBk)
               => path = << << "F","o","o"," ","S","e","r","i","e","s" >>,
                            << "0","0","3"," ","-"," ","b","k" >> >>
          /\ md.series = << >> => Len(path) = Len(root) + 1

\* A book of series Foo, index 3, in mode 'series,book'.
C3_Witness ==
    /\ pc = "do_book"
    /\ construct.foldermode = "series,book"
    /\ book.metadata.series = Foo /\ book.metadata.series_index = Idx3
    /\ src[book.slot].folder = FolderBk

(***************************************************************************)
(* C4  A folder without a book file leaves no trace                        *)
(***************************************************************************)

\* C4: no folder, symlink or metadata file is ever made, and no report line
\* added, for a book folder that holds no file with a configured extension,
\* whatever the selection mode and whatever else the folder holds.
C4_NoBookFileNoEffect ==
    \A w \in written \cup reported : HasBookFile(w.by, w.sec)

\* An exporting run has gone through a store with a book folder that has a
\* cover and a metadata file but no book file.
C4_Witness ==
    /\ pc = "books" /\ todo = << >> /\ Exporting
    /\ \E slot \in Slots :
         /\ ~HasBookFile(slot, sec)
         /\ { CoverName, OpfName } \subseteq DOMAIN src[slot].mtime
         /\ slot \in Range(Enumerate(construct))

(***************************************************************************)
(* C5  No per-book condition aborts the run                                *)
(***************************************************************************)

\* C5: a run that got past the validation of the configuration ends with
\* every book folder it iterates done or skipped: it never ends with a book
\* in progress or with book folders left to iterate.
C5_EveryBookFinishes ==
    (pc = "idle" /\ exit_status \notin {"", "-1"}) =>
      (exit_status = "0" /\ book = NoBook /\ todo = << >>)

(***************************************************************************)
(* C6  A fatal configuration error ends the run                            *)
(***************************************************************************)

\* What the sanity checks of a section accept.
ValidConfig(section) ==
    /\ KeysRead(section) \cap section.lacks = {}
    /\ section.calibreIsDir /\ section.jellyfinIsDir /\ ~section.samefile
    /\ section.foldermode \in FolderModes
    /\ section.selectionMode \in SelectionModes
    /\ section.selectionMode = "author" => section.authorFolders # << << >> >>
    /\ section.selectionMode = "subject" => section.subjects # << << << >> >> >>
    /\ section.bookfiletypes # << "" >>

\* C6 as claimed: a run that ends with a fatal configuration error has
\* exported no book of any section and written nothing.
C6_Original ==
    exit_status = "-1" => (written = {} /\ reported = {})

\* C6 as amended: the sections are validated one by one, each right before
\* it is exported.  A run that ends with a fatal configuration error has
\* written nothing for the section in error or for a section after it, and
\* no section in error is ever exported; the sections before it have been.
C6_ErrorStopsBeforeSection ==
    /\ exit_status = "-1" =>
         /\ ~ValidConfig(config[sec])
         /\ \A w \in written \cup reported : w.sec < sec
    /\ \A w \in written \cup reported : ValidConfig(config[w.sec])
    /\ pc \in {"books"} \cup BookSteps => ValidConfig(config[sec])

\* The second section is in error and the first one has been exported.
C6_Witness ==
    exit_status = "-1" /\ sec = 2 /\ written # {}

(***************************************************************************)
(* C7  A failed folder creation                                            *)
(***************************************************************************)

\* The writes made for the current book.
WrittenForBook == { w \in written : w.sec = sec /\ w.by = hist.slot }

\* C7 as claimed: after the folder creation failed, neither the cover sync
\* nor the metadata sync is executed for the book.
C7_Original ==
    hist.mkdir_failed => pc \notin {"do_cover", "do_metadata"}

\* C7 as amended: after the folder creation failed the book file sync is not
\* executed; the cover sync and the metadata sync are still executed, but
\* with the folder missing their symlink_to and open fail, so no symlink is
\* created or touched and no metadata file is written for the book.
C7_MkdirFailureNoFiles ==
    (hist.mkdir_failed /\ pc \in {"do_cover", "do_metadata", "books"}) =>
      /\ \A w \in WrittenForBook : w.op \notin FileOps
      /\ \A f \in DOMAIN dst : f.dir # BookOf(hist.slot, sec).book_folder_dst_path
      /\ BookOf(hist.slot, sec).book_folder_dst_path \notin dirs

\* The three steps are over for a book with a cover and a parsed metadata
\* file whose folder could not be created.
C7_Witness ==
    /\ hist.mkdir_failed /\ pc = "books"
    /\ CoverName \in DOMAIN src[hist.slot].mtime
    /\ BookOf(hist.slot, sec).metadata.doc # << >>

(***************************************************************************)
(* C8  BookMetadata.write fails                                            *)
(***************************************************************************)

\* C8: when write() fails, in open() or in writexml(), the destination
\* metadata file is as it was before the call.
C8_WriteAllOrNothing ==
    hist.write \in {"open_failed", "write_failed"} => Before(hist.file) = hist.before

(***************************************************************************)
(* C9  Subject selection                                                   *)
(***************************************************************************)

\* C9: in 'subject' selection mode nothing is written and no report line is
\* added for a book whose metadata did not parse or whose subjects satisfy
\* no subject line of the section.
C9_SubjectSelection ==
    \A w \in written \cup reported :
      config[w.sec].selectionMode = "subject" => Selected(w.by, w.sec)

\* A run in subject mode has exported one book and left one out that has a
\* book file.
C9_Witness ==
    /\ pc = "books" /\ todo = << >> /\ construct.selection_mode = "subject"
    /\ written # {}
    /\ \E slot \in Slots : HasBookFile(slot, sec) /\ ~Selected(slot, sec)

(***************************************************************************)
(* C10  The subject matcher                                                *)
(***************************************************************************)

\* The subject line has every one of its items, stripped, among the subjects
\* of the book.
Satisfied(line) ==
    \A j \in DOMAIN line : Strip(line[j]) \in Range(book.metadata.subjects)

SatisfiedLines == { i \in DOMAIN construct.subjects : Satisfied(construct.subjects[i]) }

\* C10: check_subjects returns true iff at least one subject line has every
\* one of its whitespace-trimmed items among the book's subjects, and the
\* matched subject it then records is the first such line, joined with
\* commas.  {fantasy, adventure} against [[fantasy]] is true, {fantasy}
\* against [[fantasy, adventure]] is false, {x} against [[a], [b, x]] is false.
C10_SubjectMatcher ==
    pc \in {"matched", "unmatched"} =>
      /\ pc = "matched" <=> SatisfiedLines # {}
      /\ pc = "matched" =>
           \E i \in SatisfiedLines :
             /\ \A k \in SatisfiedLines : i <= k
             /\ book.matched_subject = Join(construct.subjects[i])
      /\ pc = "unmatched" => book.matched_subject = << >>
      /\ (book.metadata.subjects = << Fantasy, Adventure >>
            /\ construct.subjects = << << Fantasy >> >>) => pc = "matched"
      /\ (book.metadata.subjects = << Fantasy >>
            /\ construct.subjects = << << Fantasy, Adventure >> >>) => pc = "unmatched"
      /\ (book.metadata.subjects = << ItemX >>
            /\ construct.subjects = << << ItemA >>, << ItemB, ItemX >> >>)
           => pc = "unmatched"

\* The second of two lines matched, through an item that had to be stripped,
\* the first line having one item of two among the subjects.
C10_Witness ==
    /\ pc = "matched"
    /\ book.metadata.subjects = << Fantasy, Adventure >>
    /\ construct.subjects = << << Adventure, ItemX >>, << PadFantasy, Adventure >> >>
    /\ book.matched_subject = Join(construct.subjects[2])

(***************************************************************************)
(* C11  Dry run and list report                                            *)
(***************************************************************************)

\* The running invocation has --dryrun or --list.
NoExport == CMDARGS.dryrun \/ CMDARGS.list_spec # << >>

\* C11: while a run with --dryrun or with --list is under way, nothing has
\* been written to the destination: no folder made, no symlink created or
\* touched, no metadata file written; when it is the first run the
\* destination is still empty.
C11_DryRunChangesNothing ==
    (pc # "idle" /\ NoExport) =>
      /\ written = {}
      /\ runs = 1 => (dst = << >> /\ dirs = { << >> })

\* A dry run ends that went through an exported store after a source file
\* was touched: there was a link to touch.
C11_Witness ==
    /\ RunEnds /\ CMDARGS.dryrun /\ CMDARGS.list_spec = << >>
    /\ prev.touched # {}
    /\ \E f \in DOMAIN dst : dst[f].kind = "link" /\ dst[f].target \in prev.touched
                               /\ OutOfDate(f, dst[f].target.slot, dst[f].target.name)

(***************************************************************************)
(* C12  The formatted series index                                         *)
(***************************************************************************)

\* C12: a book whose metadata document loaded and that declares a series has
\* the formatted series index format(raw series index): 999 when there is no
\* index, 003 for 3, 003.02 for 3.2.
C12_FormattedIndex ==
    (pc \in BookSteps /\ book.metadata.doc # << >> /\ book.metadata.series # << >>) =>
      /\ book.metadata.formatted_series_index
           = format_series_index(book.metadata.series_index)
      /\ book.metadata.series_index = << >>
           => book.metadata.formatted_series_index = << "9", "9", "9" >>
      /\ book.metadata.series_index = Idx3
           => book.metadata.formatted_series_index = << "0", "0", "3" >>
      /\ book.metadata.series_index = Idx3_2
           => book.metadata.formatted_series_index = << "0", "0", "3", ".", "0", "2" >>

(***************************************************************************)
(* C13, C14  sanitize_filename                                             *)
(***************************************************************************)

\* C13: sanitize_filename is idempotent: sanitizing the result again gives
\* the result.
C13_SanitizeIdempotent ==
    pc = "sanitized_again" =>
      book.book_folder_dst_path[2] = book.book_folder_dst_path[1]

\* A string that begins with a space and a device name and ends with a dot
\* has been sanitized twice, and the first time changed it.
C13_Witness ==
    /\ pc = "sanitized_again"
    /\ book.book_folder = << " ", "c", "O", "n", ".", "." >>
    /\ book.book_folder_dst_path[1] # book.book_folder

\* C14: the result of sanitize_filename has none of / \ ? % * : | " < > and no
\* control character, does not begin with a space and does not end with a
\* space or a dot.
C14_SanitizeOutput ==
    pc = "sanitized" =>
      LET r == book.book_folder_dst_path[1]
      IN  /\ \A i \in DOMAIN r :
               r[i] \notin { "/", "\\", "?", "%", "*", ":", "|", "\"", "<", ">",
                             "\t", "\n", "\f", "\r" }
          /\ r # << >> => (r[1] # " " /\ r[Len(r)] \notin { " ", "." })

\* A string with a colon and a control character, between a leading space and
\* a trailing dot, has been sanitized.
C14_Witness ==
    /\ pc = "sanitized"
    /\ book.book_folder = << " ", ":", "\t", "c", "." >>
    /\ book.book_folder_dst_path = << << "-", "-", "-", "c", "-" >> >>

(***************************************************************************)
(* C15  The metadata write decision                                        *)
(***************************************************************************)

\* The book the three steps have just been through, its destination metadata
\* file, and that file as do_metadata found it.
MetaBook == BookOf(hist.slot, sec)

MetadataDone ==
    pc = "books" /\ hist.slot # 0 /\ Exporting /\ ~Skipped(MetaBook)

MetaFile == metadata_file_dst_path(MetaBook)

MetaFound == IF hist.write = "none" THEN Before(MetaFile) ELSE hist.before

MetaWrites ==
    { w \in written : /\ w.sec = sec /\ w.by = hist.slot
                      /\ w.name = OpfName /\ w.op \in {"write", "truncate"} }

\* C15: do_metadata calls write() for a book with a loaded document and a
\* source metadata file iff --update-all-metadata is set, or there is no
\* destination metadata file, or the destination is strictly older than the
\* source; a write that succeeds leaves the exported document there, and
\* without the call the file is not written.  Nothing is ever written for a
\* book whose document did not load.
C15_WriteDecision ==
    /\ MetadataDone =>
         IF MetaBook.metadata.doc # << >> /\ MetaBook.metadata_file_src_path # None
         THEN /\ hist.write # "none" <=>
                   \/ CMDARGS.updateAllMetadata
                   \/ MetaFound = << >>
                   \/ MetaFound[1].mtime < src[hist.slot].mtime[OpfName]
              /\ hist.write = "ok" =>
                   /\ MetaFile \in DOMAIN dst
                   /\ dst[MetaFile].kind = "file"
                   /\ dst[MetaFile].mtime = now
                   /\ dst[MetaFile].content = ExportedDoc(construct, MetaBook.metadata)
                   /\ MetaWrites # {}
              /\ hist.write = "none" => MetaWrites = {}
         ELSE hist.write = "none" /\ MetaWrites = {}
    /\ \A w \in written :
         (w.name = OpfName /\ w.op \in {"write", "truncate"})
           => /\ OpfName \in DOMAIN src[w.by].mtime
              /\ src[w.by].opf.kind = "xml"

\* With the flag set the metadata file of the earlier run, as new as its
\* source, has been written again.
C15_Witness ==
    /\ MetadataDone
    /\ CMDARGS.updateAllMetadata
    /\ hist.write = "ok"
    /\ hist.before # << >>
    /\ hist.before[1].mtime >= src[hist.slot].mtime[OpfName]

(***************************************************************************)
(* C16  The mangling of the exported metadata                              *)
(***************************************************************************)

\* The document the source metadata file holds, and the one just written.
SourceDoc == src[hist.slot].opf

Exported == dst[MetaFile].content

\* The book has a series and the folder mode nests by series.
Nested ==
    MetaBook.metadata.series # << >>
      /\ construct.foldermode \in {"series,book", "author,series,book"}

IndexPrefix == MetaBook.metadata.formatted_series_index \o << " ", "-", " " >>

BookHeader ==
    << "<","H","4",">","B","o","o","k"," " >> \o MetaBook.metadata.series_index
      \o << " ","o","f"," ","<","e","m",">" >> \o MetaBook.metadata.series
      \o << "<","/","e","m",">",","," ","b","y"," " >> \o MetaBook.metadata.author
      \o << "<","/","H","4",">" >>

\* C16: in a metadata file that has just been written, the title is the
\* formatted index, ' - ' and the source title iff the book is nested by
\* series, mangleMetaTitle is on and there is a title; the sort title
\* likewise with mangleMetaTitleSort; the description is the header with the
\* raw index, the series and the author, and the source description, iff the
\* book is nested by series and there is a description; everything else is as
\* in the source.  The texts are those of the source, so the prefix is there
\* once in whatever run the file is written.
C16_Mangling ==
    (MetadataDone /\ hist.write = "ok") =>
      /\ IF Nested /\ construct.mangle_meta_title /\ SourceDoc.title # << >>
         THEN /\ Exported.title[1] = << IndexPrefix \o SourceDoc.title[1][1] >>
              /\ Tail(Exported.title) = Tail(SourceDoc.title)
         ELSE Exported.title = SourceDoc.title
      /\ IF Nested /\ construct.mangle_meta_title_sort /\ MetaBook.metadata.sortel # << >>
         THEN Exported.title_sort = << IndexPrefix \o MetaBook.metadata.sortel[1] >>
         ELSE Exported.title_sort = MetaBook.metadata.sortel
      /\ IF Nested /\ SourceDoc.description # << >>
         THEN /\ Exported.description[1]
                   = << BookHeader \o SourceDoc.description[1][1] >>
              /\ Tail(Exported.description) = Tail(SourceDoc.description)
         ELSE Exported.description = SourceDoc.description
      /\ (Nested /\ construct.mangle_meta_title /\ SourceDoc = DocFull)
           => Exported.title = << << << "0","0","3"," ","-"," ","T" >> >> >>
      /\ (Nested /\ construct.mangle_meta_title_sort /\ SourceDoc = DocFull)
           => Exported.title_sort = << << "0","0","3"," ","-"," " >> \o SortText >>

\* The metadata file of a book of a series is written a second time, over
\* the mangled one of the first run.
C16_Witness ==
    /\ MetadataDone /\ hist.write = "ok" /\ runs = 2
    /\ Nested /\ construct.mangle_meta_title /\ SourceDoc = DocFull
    /\ hist.before # << >>
    /\ hist.before[1].content = Exported

\* The sort title is mangled and the title is not.
C16_WitnessSort ==
    /\ MetadataDone /\ hist.write = "ok"
    /\ Nested /\ construct.mangle_meta_title_sort /\ ~construct.mangle_meta_title
    /\ SourceDoc = DocFull

(***************************************************************************)
(* C17  Sanitized path components                                          *)
(***************************************************************************)

\* The components of the destination folder below the author folder, if any:
\* the series folder, if any, and the book folder.
NameComponents ==
    LET path == book.book_folder_dst_path
        k == IF construct.foldermode = "author,series,book" THEN 1 ELSE 0
    IN  { path[i] : i \in (k + 1)..Len(path) }

\* C17: in every folder mode, with or without a series, the series folder
\* and the book folder of the destination path are fixed points of
\* sanitize_filename.
C17_SanitizedComponents ==
    (pc \in BookSteps /\ book.book_file_src_path # None) =>
      \A c \in NameComponents : sanitize_filename(c) = c

(***************************************************************************)
(* C18  Disjoint destinations                                              *)
(***************************************************************************)

\* Path p is path q or lies below it.
Within(p, q) == Len(q) <= Len(p) /\ SubSeq(p, 1, Len(q)) = q

\* The book folders of the store that section sec makes a book with a
\* destination of.
Exportable ==
    { slot \in Slots : HasBookFile(slot, sec) /\ ~BookOf(slot, sec).raised }

\* C18: within one construct two distinct source book folders get different
\* destination folders, and neither destination lies inside the other.
C18_DisjointDestinations ==
    pc = "books" =>
      \A s1, s2 \in Exportable :
        s1 # s2 => ~Within(BookOf(s1, sec).book_folder_dst_path,
                           BookOf(s2, sec).book_folder_dst_path)

(***************************************************************************)
(* C19  Self-healing of partial results                                    *)
(***************************************************************************)

\* Section s exports the book folder, and to a destination folder that no
\* other book folder of the section shares.
ExportedBy(slot, s) ==
    /\ HasBookFile(slot, s)
    /\ ~BookOf(slot, s).raised
    /\ config[s].selectionMode = "subject" => Selected(slot, s)
    /\ config[s].selectionMode = "author"
         => src[slot].author \in Range(config[s].authorFolders)
    /\ \A other \in Slots \ { slot } :
         (HasBookFile(other, s) /\ ~BookOf(other, s).raised)
           => BookOf(other, s).book_folder_dst_path
                # BookOf(slot, s).book_folder_dst_path

\* The destination has the symlink to the book file, the symlink to the
\* cover if there is one, and the metadata file, whole and no older than its
\* source, if the document loaded.
Healed(slot, s) ==
    LET b == BookOf(slot, s)
        bookfile == book_file_dst_path(b)
        cover == cover_file_dst_path(b)
        meta == metadata_file_dst_path(b)
    IN  /\ bookfile \in DOMAIN dst
        /\ dst[bookfile] = [ dst[bookfile] EXCEPT
                               !.kind = "link",
                               !.target = [ slot |-> slot, name |-> b.book_file_src_path ] ]
        /\ b.cover_file_src_path # None =>
             /\ cover \in DOMAIN dst
             /\ dst[cover].kind = "link"
        /\ (b.metadata.doc # << >> /\ b.metadata_file_src_path # None) =>
             /\ meta \in DOMAIN dst
             /\ dst[meta].kind = "file"
             /\ dst[meta].content.kind = "xml"
             /\ dst[meta].mtime >= src[slot].mtime[OpfName]

\* C19: whatever an earlier run left behind, an exporting run in which no
\* operation failed ends with every book it exports healed.
C19_SelfHealing ==
    (RunEnds /\ Exporting /\ ~prev.failed) =>
      \A s \in DOMAIN config : \A slot \in Slots :
        ExportedBy(slot, s) => Healed(slot, s)

====
